---- MODULE Spec2Model ----
(***************************************************************************)
(* Model of crates/exex/src/serde.rs: KakarotSerde::get_identifier,        *)
(* KakarotSerde::serialize_pointers and KakarotSerde::serialize_uint256,   *)
(* over a program's identifier table and the VM's sparse memory.           *)
(*                                                                         *)
(* Strings on which the code works character by character (identifier     *)
(* keys, looked-up names, member type tags) are sequences of one-character *)
(* strings.  Strings that are only compared (kind tags, member names) are  *)
(* TLA+ strings.                                                           *)
(***************************************************************************)
EXTENDS Naturals, Sequences, FiniteSets, TLC

VARIABLES identifiers, memory, call, result

vars == <<identifiers, memory, call, result>>

(***************************************************************************)
(* Option and Result values.                                               *)
(***************************************************************************)
None == [some |-> FALSE]

Some(v) == [some |-> TRUE, val |-> v]

Ok(v) == [ok |-> TRUE, val |-> v]

Err(e) == [ok |-> FALSE, err |-> e]

(***************************************************************************)
(* Bounds of the model.                                                    *)
(***************************************************************************)
\* Longest name passed to get_identifier in the lookup specification.
MaxNameLen == 3

\* Largest number of entries of an identifier table of the lookup
\* specification.
MaxEntries == 3

\* usize::MAX, scaled: offsets are 0..USIZE_MAX and ptr + offset fails above.
USIZE_MAX == 3

\* Radix of one byte of Felt252::to_bytes_be (256 in the program), scaled.
ByteBase == 2

\* crate::model::U128_BYTES_SIZE (16 in the program), scaled: the number of
\* bytes of one 128-bit limb.
U128_BYTES_SIZE == 2

(***************************************************************************)
(* Strings as sequences of characters.                                     *)
(***************************************************************************)
\* str::contains: pat occurs in s as a contiguous substring.
Contains(s, pat) ==
    \E i \in 0..Len(s) :
        /\ i + Len(pat) <= Len(s)
        /\ SubSeq(s, i + 1, i + Len(pat)) = pat

\* str::split(sep): the segments of s between occurrences of sep, an empty
\* string giving one empty segment.
RECURSIVE SplitFrom(_, _, _, _)
SplitFrom(s, sep, i, cur) ==
    IF i > Len(s) THEN <<cur>>
    ELSE IF s[i] = sep THEN <<cur>> \o SplitFrom(s, sep, i + 1, << >>)
    ELSE SplitFrom(s, sep, i + 1, Append(cur, s[i]))

Split(s, sep) == SplitFrom(s, sep, 1, << >>)

\* Iterator::last of a split: Some(last segment).
LastOf(segs) == IF Len(segs) = 0 THEN None ELSE Some(segs[Len(segs)])

\* str::ends_with(char).
EndsWith(s, c) == Len(s) > 0 /\ s[Len(s)] = c

(***************************************************************************)
(* KakarotSerdeError.                                                      *)
(***************************************************************************)
IdentifierNotFound(struct_name, expected_type) ==
    [kind |-> "IdentifierNotFound", struct_name |-> struct_name,
     expected_type |-> expected_type]

MultipleIdentifiersFound(struct_name, expected_type, count) ==
    [kind |-> "MultipleIdentifiersFound", struct_name |-> struct_name,
     expected_type |-> expected_type, count |-> count]

CairoVmMath(ptr, offset) ==
    [kind |-> "CairoVmMath", ptr |-> ptr, offset |-> offset]

MissingField(field) == [kind |-> "MissingField", field |-> field]

(***************************************************************************)
(* get_identifier.                                                         *)
(***************************************************************************)
\* Mutant: the filter without the comparison of the last segments.
IdentifierFilter_NoLastSegment(key, value, struct_name, expected_type) ==
    /\ Contains(key, struct_name)
    /\ value.type_ = expected_type

\* The filter closure of get_identifier, for one (key, value) of the table.
IdentifierFilter(key, value, struct_name, expected_type) ==
    /\ Contains(key, struct_name)
    /\ LastOf(Split(key, ".")) = LastOf(Split(struct_name, "."))
    /\ value.type_ = expected_type

\* The keys of the identifiers kept by the filter.
FilteredKeys(ids, struct_name, expected_type) ==
    {key \in DOMAIN ids :
        IdentifierFilter(key, ids[key], struct_name, expected_type)}

\* Mutant: the not-found error reports the name's last segment only.
get_identifier_ShortName(ids, struct_name, expected_type) ==
    LET keys == FilteredKeys(ids, struct_name, expected_type)
        count == Cardinality(keys)
    IN  IF count = 0
        THEN Err(IdentifierNotFound(LastOf(Split(struct_name, ".")).val,
                                    expected_type))
        ELSE IF count = 1
        THEN Ok(ids[CHOOSE key \in keys : TRUE])
        ELSE Err(MultipleIdentifiersFound(struct_name, expected_type, count))

\* Mutant: more than one match is reported as two matches.
get_identifier_CountTwo(ids, struct_name, expected_type) ==
    LET keys == FilteredKeys(ids, struct_name, expected_type)
        count == Cardinality(keys)
    IN  IF count = 0
        THEN Err(IdentifierNotFound(struct_name, expected_type))
        ELSE IF count = 1
        THEN Ok(ids[CHOOSE key \in keys : TRUE])
        ELSE Err(MultipleIdentifiersFound(struct_name, expected_type, 2))

\* The match on identifiers.len().
get_identifier(ids, struct_name, expected_type) ==
    LET keys == FilteredKeys(ids, struct_name, expected_type)
        count == Cardinality(keys)
    IN  IF count = 0
        THEN Err(IdentifierNotFound(struct_name, expected_type))
        ELSE IF count = 1
        THEN Ok(ids[CHOOSE key \in keys : TRUE])
        ELSE Err(MultipleIdentifiersFound(struct_name, expected_type, count))

(***************************************************************************)
(* Relocatable, MaybeRelocatable and the VM memory.                        *)
(***************************************************************************)
Relocatable(segment_index, offset) ==
    [segment_index |-> segment_index, offset |-> offset]

Int(felt) == [tag |-> "Int", felt |-> felt]

RelocatableValue(rel) == [tag |-> "RelocatableValue", rel |-> rel]

\* Mutant: the addition fails already when it reaches usize::MAX.
RelocatableAdd_OffByOne(ptr, offset) ==
    IF ptr.offset + offset >= USIZE_MAX
    THEN Err(CairoVmMath(ptr, offset))
    ELSE Ok(Relocatable(ptr.segment_index, ptr.offset + offset))

\* Relocatable + usize: checked addition on the offset.
RelocatableAdd(ptr, offset) ==
    IF ptr.offset + offset > USIZE_MAX
    THEN Err(CairoVmMath(ptr, offset))
    ELSE Ok(Relocatable(ptr.segment_index, ptr.offset + offset))

\* VirtualMachine::get_maybe: the cell at addr, None when it was never
\* written.
get_maybe(mem, addr) ==
    IF addr \in DOMAIN mem THEN Some(mem[addr]) ELSE None

(***************************************************************************)
(* serialize_pointers.                                                     *)
(***************************************************************************)
\* Mutant: any integer cell of a pointer-typed member is taken for null.
MemberEntry_AnyInt(member, member_ptr) ==
    IF member_ptr.tag = "Int" /\ EndsWith(member.cairo_type, "*")
    THEN None
    ELSE Some(member_ptr)

\* Mutant: a zero cell is taken for null whatever the member's type.
MemberEntry_AnyType(member, member_ptr) ==
    IF member_ptr = Int(0) THEN None ELSE Some(member_ptr)

\* The value inserted for a member whose cell is member_ptr: None for a
\* null pointer, Some(member_ptr) otherwise.
MemberEntry(member, member_ptr) ==
    IF member_ptr = Int(0) /\ EndsWith(member.cairo_type, "*")
    THEN None
    ELSE Some(member_ptr)

\* Mutant: a member whose cell was never written is inserted as None.
RECURSIVE MembersLoop_AbsentAsNone(_, _, _, _, _, _)
MembersLoop_AbsentAsNone(members, order, i, ptr, mem, output) ==
    IF i > Len(order) THEN Ok(output)
    ELSE
        LET name == order[i]
            member == members[name]
            addr == RelocatableAdd(ptr, member.offset)
        IN  IF ~addr.ok THEN Err(addr.err)
            ELSE
                LET member_ptr == get_maybe(mem, addr.val)
                IN  IF ~member_ptr.some
                    THEN MembersLoop_AbsentAsNone(members, order, i + 1, ptr, mem,
                                                  (name :> None) @@ output)
                    ELSE MembersLoop_AbsentAsNone(
                             members, order, i + 1, ptr, mem,
                             (name :> MemberEntry(member, member_ptr.val)) @@ output)

\* Mutant: a member whose address overflows is skipped like a member whose
\* cell was never written.
RECURSIVE MembersLoop_SkipOverflow(_, _, _, _, _, _)
MembersLoop_SkipOverflow(members, order, i, ptr, mem, output) ==
    IF i > Len(order) THEN Ok(output)
    ELSE
        LET name == order[i]
            member == members[name]
            addr == RelocatableAdd(ptr, member.offset)
        IN  IF ~addr.ok
            THEN MembersLoop_SkipOverflow(members, order, i + 1, ptr, mem, output)
            ELSE
                LET member_ptr == get_maybe(mem, addr.val)
                IN  IF ~member_ptr.some
                    THEN MembersLoop_SkipOverflow(members, order, i + 1, ptr, mem,
                                                  output)
                    ELSE MembersLoop_SkipOverflow(
                             members, order, i + 1, ptr, mem,
                             (name :> MemberEntry(member, member_ptr.val)) @@ output)

\* The loop over the members, for the members order[i..] taken in that
\* order; output is the map built so far.
RECURSIVE MembersLoop(_, _, _, _, _, _)
MembersLoop(members, order, i, ptr, mem, output) ==
    IF i > Len(order) THEN Ok(output)
    ELSE
        LET name == order[i]
            member == members[name]
            addr == RelocatableAdd(ptr, member.offset)
        IN  IF ~addr.ok THEN Err(addr.err)
            ELSE
                LET member_ptr == get_maybe(mem, addr.val)
                IN  IF ~member_ptr.some
                    THEN MembersLoop(members, order, i + 1, ptr, mem, output)
                    ELSE MembersLoop(
                             members, order, i + 1, ptr, mem,
                             (name :> MemberEntry(member, member_ptr.val)) @@ output)

\* Mutant: the struct is looked up as a function.
serialize_pointers_AsFunction(ids, mem, struct_name, ptr, order) ==
    LET identifier == get_identifier(ids, struct_name, Some("function"))
    IN  IF ~identifier.ok THEN Err(identifier.err)
        ELSE IF identifier.val.members.some
        THEN MembersLoop(identifier.val.members.val, order, 1, ptr, mem, << >>)
        ELSE Ok(<< >>)

\* serialize_pointers, the members being iterated in the order `order`.
serialize_pointers(ids, mem, struct_name, ptr, order) ==
    LET identifier == get_identifier(ids, struct_name, Some("struct"))
    IN  IF ~identifier.ok THEN Err(identifier.err)
        ELSE IF identifier.val.members.some
        THEN MembersLoop(identifier.val.members.val, order, 1, ptr, mem, << >>)
        ELSE Ok(<< >>)

\* The orders in which a HashMap holding the keys S can be iterated.
Orders(S) ==
    {o \in [1..Cardinality(S) -> S] : \A i, j \in DOMAIN o : i # j => o[i] # o[j]}

\* The iteration orders of the members of the struct struct_name resolves to
\* (one empty order when there is no such struct or it has no members).
MemberOrders(ids, struct_name) ==
    LET identifier == get_identifier(ids, struct_name, Some("struct"))
    IN  IF identifier.ok /\ identifier.val.members.some
        THEN Orders(DOMAIN identifier.val.members.val)
        ELSE {<< >>}

(***************************************************************************)
(* serialize_uint256.                                                      *)
(***************************************************************************)
RECURSIVE Pow(_, _)
Pow(b, n) == IF n = 0 THEN 1 ELSE b * Pow(b, n - 1)

\* Number of bytes of Felt252::to_bytes_be: two limbs of U128_BYTES_SIZE.
FeltBytes == 2 * U128_BYTES_SIZE

\* The field modulus, scaled: above every limb value and within FeltBytes
\* bytes.
FELT_MODULUS == 2 * Pow(ByteBase, U128_BYTES_SIZE) + 1

\* Felt252::to_bytes_be: the FeltBytes big-endian bytes of a field element.
to_bytes_be(felt) ==
    [i \in 1..FeltBytes |-> (felt \div Pow(ByteBase, FeltBytes - i)) % ByteBase]

\* U256::from_be_slice: the integer a big-endian byte string denotes.
RECURSIVE from_be_slice(_)
from_be_slice(bytes) ==
    IF Len(bytes) = 0 THEN 0
    ELSE from_be_slice(SubSeq(bytes, 1, Len(bytes) - 1)) * ByteBase
         + bytes[Len(bytes)]

\* Mutant: the first bytes are kept instead of the last.
SliceFrom_Head(bytes, from) == SubSeq(bytes, 1, from)

\* &bytes[U128_BYTES_SIZE..]
SliceFrom(bytes, from) == SubSeq(bytes, from + 1, Len(bytes))

Uint256 == <<"U", "i", "n", "t", "2", "5", "6">>

\* Mutant: the error names low whatever the field.
IntField_NamesLow(raw, field) ==
    IF /\ field \in DOMAIN raw
       /\ raw[field].some
       /\ raw[field].val.tag = "Int"
    THEN Ok(raw[field].val.felt)
    ELSE Err(MissingField("low"))

\* Mutant: a field that is missing from the map, or None in it, reads as 0.
IntField_MissingAsZero(raw, field) ==
    IF field \notin DOMAIN raw \/ ~raw[field].some THEN Ok(0)
    ELSE IF raw[field].val.tag = "Int" THEN Ok(raw[field].val.felt)
    ELSE Err(MissingField(field))

\* Mutant: an integer that does not fit U128_BYTES_SIZE bytes is rejected.
IntField_Checked(raw, field) ==
    IF /\ field \in DOMAIN raw
       /\ raw[field].some
       /\ raw[field].val.tag = "Int"
       /\ raw[field].val.felt < Pow(ByteBase, U128_BYTES_SIZE)
    THEN Ok(raw[field].val.felt)
    ELSE Err(MissingField(field))

\* raw.get(field) matched against Some(Some(MaybeRelocatable::Int(value))).
IntField(raw, field) ==
    IF /\ field \in DOMAIN raw
       /\ raw[field].some
       /\ raw[field].val.tag = "Int"
    THEN Ok(raw[field].val.felt)
    ELSE Err(MissingField(field))

\* Mutant: the failure of high is reported before the failure of low.
serialize_uint256_HighFirst(ids, mem, ptr, order) ==
    LET raw == serialize_pointers(ids, mem, Uint256, ptr, order)
    IN  IF ~raw.ok THEN Err(raw.err)
        ELSE
            LET low == IntField(raw.val, "low")
                high == IntField(raw.val, "high")
            IN  IF ~high.ok THEN Err(high.err)
                ELSE IF ~low.ok THEN Err(low.err)
                ELSE
                    LET high_bytes == to_bytes_be(high.val)
                        low_bytes == to_bytes_be(low.val)
                        bytes == SliceFrom(high_bytes, U128_BYTES_SIZE)
                                 \o SliceFrom(low_bytes, U128_BYTES_SIZE)
                    IN  Ok(from_be_slice(bytes))

serialize_uint256(ids, mem, ptr, order) ==
    LET raw == serialize_pointers(ids, mem, Uint256, ptr, order)
    IN  IF ~raw.ok THEN Err(raw.err)
        ELSE
            LET low == IntField(raw.val, "low")
                high == IntField(raw.val, "high")
            IN  IF ~low.ok THEN Err(low.err)
                ELSE IF ~high.ok THEN Err(high.err)
                ELSE
                    LET high_bytes == to_bytes_be(high.val)
                        low_bytes == to_bytes_be(low.val)
                        bytes == SliceFrom(high_bytes, U128_BYTES_SIZE)
                                 \o SliceFrom(low_bytes, U128_BYTES_SIZE)
                    IN  Ok(from_be_slice(bytes))

(***************************************************************************)
(* The values the specifications draw from.                                *)
(***************************************************************************)
\* Identifier of cairo_vm's deserialize_program: the fields the code reads
\* (type_, members) and pc, which tells one declaration from another.
Identifier(pc, type_, members) ==
    [pc |-> pc, type_ |-> type_, members |-> members]

\* Member of an Identifier's members.
Member(cairo_type, offset) == [cairo_type |-> cairo_type, offset |-> offset]

Chars == {"a", "b", "."}

\* The strings over Chars of length at most n.
StringsUpTo(n) == UNION {[1..k -> Chars] : k \in 0..n}

\* Names looked up in the lookup specification.
LookupNames == StringsUpTo(MaxNameLen)

\* Keys of the identifier tables of the lookup specification: a, a.b, b.a,
\* ab, b.ab, a.b.a and a key with a trailing dot.
LookupKeys ==
    << <<"a">>, <<"a", ".", "b">>, <<"b", ".", "a">>, <<"a", "b">>,
       <<"b", ".", "a", "b">>, <<"a", ".", "b", ".", "a">>, <<"a", ".">> >>

Kinds == {None, Some("struct"), Some("function")}

\* Kind tags of the identifiers of the lookup specification.
TableKinds == {None, Some("struct")}

\* The tables of at most MaxEntries identifiers over LookupKeys, the
\* identifier at the i-th key having pc i and any kind of TableKinds.
LookupTables ==
    UNION {
        {[i \in D |-> Identifier(Some(i), kindOf[i], None)] : kindOf \in [D -> TableKinds]}
        : D \in {D \in SUBSET (1..Len(LookupKeys)) : Cardinality(D) <= MaxEntries}}

\* The table with the key LookupKeys[i] for each i of t.
KeyedTable(t) ==
    [key \in {LookupKeys[i] : i \in DOMAIN t} |->
        t[CHOOSE i \in DOMAIN t : LookupKeys[i] = key]]

main == <<"m", "a", "i", "n">>

QualifiedUint256 == <<"u", "."  >> \o Uint256

OtherUint256 == <<"v", ".">> \o Uint256

felt == <<"f", "e", "l", "t">>

feltPtr == <<"f", "e", "l", "t", "*">>

\* Offsets of the members of the struct layouts.
MemberOffsets == {0, 1, USIZE_MAX}

\* Layouts of a struct: no members at all, or any of low and high, each at
\* any offset and of type felt or felt*.
Layouts ==
    {None} \cup
    UNION {
        {Some(m) : m \in [D -> {Member(t, o) : t \in {felt, feltPtr}, o \in MemberOffsets}]}
        : D \in SUBSET {"low", "high"}}

\* The program's identifiers: the function main and the struct Uint256 with
\* the given layout.
ProgramTable(layout) ==
    (main :> Identifier(Some(96), Some("function"), None))
    @@ (QualifiedUint256 :> Identifier(None, Some("struct"), layout))

\* A program with a second struct whose key ends in Uint256.
AmbiguousTable ==
    (OtherUint256 :> Identifier(None, Some("struct"), None))
    @@ ProgramTable(Some(("low" :> Member(felt, 0)) @@ ("high" :> Member(felt, 1))))

ProgramTables == {ProgramTable(layout) : layout \in Layouts} \cup {AmbiguousTable}

\* The programs of the Uint256 specification: low and high both declared, at
\* offset 0 or 1, of type felt or felt*.
Uint256Tables ==
    {ProgramTable(Some(layout)) :
        layout \in [{"low", "high"} ->
                       {Member(t, o) : t \in {felt, feltPtr}, o \in {0, 1}}]}

\* Names passed to the operations in the main specification.
ProgramNames == {Uint256, QualifiedUint256, main, <<"U", "i", "n", "t">>}

\* Addresses passed to the operations: segment 0 at any offset.
Ptrs == {Relocatable(0, o) : o \in 0..USIZE_MAX}

\* Field elements.
Felts == 0..(FELT_MODULUS - 1)

\* Cell values written in the main specification.
SampleCells ==
    {Int(0), Int(1), Int(FELT_MODULUS - 1), RelocatableValue(Relocatable(10, 11))}

\* Cell values written in the Uint256 specification.
AllCells == {Int(f) : f \in Felts} \cup {RelocatableValue(Relocatable(10, 11))}

\* Largest number of cells gen_arg writes in the main specification.
MaxArgLen == 2

\* Segments gen_arg may allocate.
SegmentIndexes == {0}

(***************************************************************************)
(* State and actions.                                                      *)
(***************************************************************************)
NoCall == [op |-> "none"]

\* VirtualMachine::gen_arg as the tests use it: a new segment holding the
\* given cells from offset 0.
gen_arg(mem, segment, values) ==
    [addr \in {Relocatable(segment, i - 1) : i \in DOMAIN values} |->
        values[addr.offset + 1]] @@ mem

\* MemorySegmentManager::add: the index of the segment gen_arg allocates, one
\* past the segments that hold cells.
NextSegment(mem) ==
    IF DOMAIN mem = {} THEN 0
    ELSE 1 + CHOOSE s \in {addr.segment_index : addr \in DOMAIN mem} :
                 \A addr \in DOMAIN mem : addr.segment_index <= s

\* No call has been made on the memory as it is: every behaviour makes one
\* call on the state its caller has set up, as every test of the source does.
Idle == call = NoCall

GenArg(values) ==
    /\ NextSegment(memory) \in SegmentIndexes
    /\ memory' = gen_arg(memory, NextSegment(memory), values)
    /\ call' = NoCall
    /\ result' = None
    /\ UNCHANGED identifiers

\* A call of get_identifier.
GetIdentifierCall(struct_name, expected_type) ==
    /\ call' = [op |-> "get_identifier", struct_name |-> struct_name,
                expected_type |-> expected_type]
    /\ result' = get_identifier(identifiers, struct_name, expected_type)
    /\ UNCHANGED <<identifiers, memory>>

\* Mutant: a cell that was never written is created when it is read.
SerializePointersCall_Allocates(struct_name, ptr) ==
    /\ \E order \in MemberOrders(identifiers, struct_name) :
           result' = serialize_pointers(identifiers, memory, struct_name, ptr, order)
    /\ call' = [op |-> "serialize_pointers", struct_name |-> struct_name,
                ptr |-> ptr]
    /\ memory' = IF ptr \in DOMAIN memory THEN memory
                 ELSE (ptr :> Int(0)) @@ memory
    /\ UNCHANGED identifiers

\* A call of serialize_pointers, the members being iterated in any order.
SerializePointersCall(struct_name, ptr) ==
    /\ \E order \in MemberOrders(identifiers, struct_name) :
           result' = serialize_pointers(identifiers, memory, struct_name, ptr, order)
    /\ call' = [op |-> "serialize_pointers", struct_name |-> struct_name,
                ptr |-> ptr]
    /\ UNCHANGED <<identifiers, memory>>

\* A call of serialize_uint256.
SerializeUint256Call(ptr) ==
    /\ \E order \in MemberOrders(identifiers, Uint256) :
           result' = serialize_uint256(identifiers, memory, ptr, order)
    /\ call' = [op |-> "serialize_uint256", ptr |-> ptr]
    /\ UNCHANGED <<identifiers, memory>>

GetIdentifier(struct_name, expected_type) ==
    /\ Idle
    /\ GetIdentifierCall(struct_name, expected_type)

SerializePointers(struct_name, ptr) ==
    /\ Idle
    /\ SerializePointersCall(struct_name, ptr)

SerializeUint256(ptr) ==
    /\ Idle
    /\ SerializeUint256Call(ptr)

\* The main specification: a loaded program, memory written by gen_arg, and
\* the three operations.
Init ==
    /\ identifiers \in ProgramTables
    /\ memory = << >>
    /\ call = NoCall
    /\ result = None

Next ==
    \/ \E values \in UNION {[1..n -> SampleCells] : n \in 1..MaxArgLen} :
           GenArg(values)
    \/ \E struct_name \in ProgramNames, expected_type \in Kinds :
           GetIdentifier(struct_name, expected_type)
    \/ \E struct_name \in ProgramNames, ptr \in Ptrs :
           SerializePointers(struct_name, ptr)
    \/ \E ptr \in Ptrs : SerializeUint256(ptr)

Spec == Init /\ [][Next]_vars

\* The lookup specification: any table of LookupTables and any name.
InitLookup ==
    /\ identifiers \in {KeyedTable(t) : t \in LookupTables}
    /\ memory = << >>
    /\ call = NoCall
    /\ result = None

NextLookup ==
    \E struct_name \in LookupNames, expected_type \in Kinds :
        GetIdentifier(struct_name, expected_type)

SpecLookup == InitLookup /\ [][NextLookup]_vars

\* The Uint256 specification: a loaded program and the two cells of one
\* gen_arg, drawn from all cell values.
InitUint256 ==
    /\ identifiers \in Uint256Tables
    /\ memory \in {gen_arg(<< >>, 0, values) : values \in [1..2 -> AllCells]}
    /\ call = NoCall
    /\ result = None

NextUint256 ==
    \E ptr \in {Relocatable(0, 0), Relocatable(0, 1)} : SerializeUint256(ptr)

SpecUint256 == InitUint256 /\ [][NextUint256]_vars

\* Programs of the call-sequence specification: Uint256 with felt members
\* at offsets 0 and 1, Uint256 with a pointer-typed low and a high at
\* usize::MAX, and a program with two structs ending in Uint256.
SequenceTables ==
    {ProgramTable(Some(("low" :> Member(felt, 0)) @@ ("high" :> Member(felt, 1)))),
     ProgramTable(Some(("low" :> Member(feltPtr, 1))
                       @@ ("high" :> Member(felt, USIZE_MAX)))),
     AmbiguousTable}

\* The call-sequence specification: the operations called one after another
\* in any order and number, between and after the caller's gen_arg.
InitSequence ==
    /\ identifiers \in SequenceTables
    /\ memory = << >>
    /\ call = NoCall
    /\ result = None

NextSequence ==
    \/ \E values \in UNION {[1..n -> SampleCells] : n \in 1..MaxArgLen} :
           GenArg(values)
    \/ \E struct_name \in ProgramNames, expected_type \in Kinds :
           GetIdentifierCall(struct_name, expected_type)
    \/ \E struct_name \in ProgramNames, ptr \in Ptrs :
           SerializePointersCall(struct_name, ptr)
    \/ \E ptr \in Ptrs : SerializeUint256Call(ptr)

SpecSequence == InitSequence /\ [][NextSequence]_vars

\* Length bound of the strings given to ScopedName::from_string.
MaxScopeLen == 4

\* ScopedName.
ScopedName(path) == [path |-> path]

\* ScopedName::SEPARATOR.
SEPARATOR == "."

\* Mutant: the empty string is split like any other.
from_string_NoEmptyCheck(scope) == ScopedName(Split(scope, SEPARATOR))

\* ScopedName::from_string: the empty string gives the empty path, any other
\* string its segments between the separators.
from_string(scope) ==
    ScopedName(IF scope = << >> THEN << >> ELSE Split(scope, SEPARATOR))

\* A call of ScopedName::from_string.
FromString(scope) ==
    /\ Idle
    /\ call' = [op |-> "from_string", scope |-> scope]
    /\ result' = from_string(scope)
    /\ UNCHANGED <<identifiers, memory>>

\* The scoped-name specification: from_string on every string over Chars
\* up to MaxScopeLen.
InitScopedName ==
    /\ identifiers \in SequenceTables
    /\ memory = << >>
    /\ call = NoCall
    /\ result = None

NextScopedName == \E scope \in StringsUpTo(MaxScopeLen) : FromString(scope)

SpecScopedName == InitScopedName /\ [][NextScopedName]_vars

(***************************************************************************)
(* The lookup rule as the specification words it, stated on the characters *)
(* of the key and of the name.                                             *)
(***************************************************************************)
\* name occurs in key: some position of key starts a copy of name.
IsSubstring(name, key) ==
    \E start \in 1..(Len(key) + 1) :
        \A j \in 1..Len(name) :
            /\ start + j - 1 <= Len(key)
            /\ key[start + j - 1] = name[j]

\* The final dot-separated segment of s: what follows its last dot, or all
\* of s when it has no dot.
FinalSegment(s) ==
    LET dots == {i \in 1..Len(s) : s[i] = "."}
        last == IF dots = {} THEN 0
                ELSE CHOOSE i \in dots : \A j \in dots : j <= i
    IN  [i \in 1..(Len(s) - last) |-> s[last + i]]

\* The entries of the table that satisfy the three conditions together.
MatchingKeys(name, expected_kind) ==
    {key \in DOMAIN identifiers :
        /\ IsSubstring(name, key)
        /\ FinalSegment(key) = FinalSegment(name)
        /\ identifiers[key].type_ = expected_kind}

IsLookup == call.op = "get_identifier"

\* C1: get_identifier returns a declaration if and only if exactly one
\* entry of the table has a key that contains the name, has the name's
\* final segment as its own final segment, and has the expected kind; the
\* declaration returned is that entry; a name that is the final segment of
\* no key is never found.
C1_LookupUnique ==
    IsLookup =>
        LET matching == MatchingKeys(call.struct_name, call.expected_type)
        IN  /\ result.ok <=> Cardinality(matching) = 1
            /\ result.ok => \A key \in matching : result.val = identifiers[key]
            /\ (\A key \in DOMAIN identifiers :
                    FinalSegment(key) # FinalSegment(call.struct_name))
               => ~result.ok

\* A lookup that succeeds on a table holding also a key that contains the
\* name without ending in it.
C1_Witness ==
    /\ IsLookup
    /\ result.ok
    /\ \E key \in DOMAIN identifiers :
           /\ IsSubstring(call.struct_name, key)
           /\ FinalSegment(key) # FinalSegment(call.struct_name)
           /\ identifiers[key].type_ = call.expected_type

\* C2: when no entry matches, get_identifier returns IdentifierNotFound
\* with the name and the expected kind of the call.
C2_NotFound ==
    (IsLookup /\ MatchingKeys(call.struct_name, call.expected_type) = {}) =>
        result = [ok |-> FALSE,
                  err |-> [kind |-> "IdentifierNotFound",
                           struct_name |-> call.struct_name,
                           expected_type |-> call.expected_type]]

\* A lookup of a name of several characters with an expected kind that
\* nothing matches, on a table that is not empty.
C2_Witness ==
    /\ IsLookup
    /\ ~result.ok
    /\ result.err.kind = "IdentifierNotFound"
    /\ Len(call.struct_name) > 1
    /\ call.expected_type # None
    /\ identifiers # << >>

\* C3: when N > 1 entries match, get_identifier returns
\* MultipleIdentifiersFound with the name and the expected kind of the call
\* and count N, and no declaration.
C3_Ambiguous ==
    IsLookup =>
        LET matching == MatchingKeys(call.struct_name, call.expected_type)
        IN  Cardinality(matching) > 1 =>
                result = [ok |-> FALSE,
                          err |-> [kind |-> "MultipleIdentifiersFound",
                                   struct_name |-> call.struct_name,
                                   expected_type |-> call.expected_type,
                                   count |-> Cardinality(matching)]]

\* A lookup that three entries match.
C3_Witness ==
    /\ IsLookup
    /\ ~result.ok
    /\ result.err.kind = "MultipleIdentifiersFound"
    /\ result.err.count = 3

(***************************************************************************)
(* The struct a call resolves, as the specification words it.              *)
(***************************************************************************)
\* The name a call looks up: serialize_uint256 looks up Uint256.
CallName == IF call.op = "serialize_uint256" THEN Uint256 ELSE call.struct_name

\* The name resolves to exactly one declaration of kind struct.
ResolvesUniquely ==
    Cardinality(MatchingKeys(CallName, [some |-> TRUE, val |-> "struct"])) = 1

\* The member layout of that declaration, empty when it declares none.
DeclaredMembers ==
    LET decl == identifiers[CHOOSE key \in
                    MatchingKeys(CallName, [some |-> TRUE, val |-> "struct"]) : TRUE]
    IN  IF decl.members.some THEN decl.members.val ELSE << >>

\* base + offset of a declared member, as a number.
MemberOffset(name) == call.ptr.offset + DeclaredMembers[name].offset

\* The address of a declared member's cell.
MemberAddress(name) ==
    [segment_index |-> call.ptr.segment_index, offset |-> MemberOffset(name)]

\* The member's cell was written.
CellPresent(name) == MemberAddress(name) \in DOMAIN memory

\* The member's declared type tag ends with '*'.
IsPointerTyped(name) ==
    LET tag == DeclaredMembers[name].cairo_type
    IN  Len(tag) > 0 /\ tag[Len(tag)] = "*"

IntegerZero == [tag |-> "Int", felt |-> 0]

\* serialize_pointers returned a map.
Resolved == call.op = "serialize_pointers" /\ result.ok

\* C4: in the map serialize_pointers returns, a pointer-typed member whose
\* cell is the integer zero maps to None, and one whose cell is an address
\* or a non-zero integer maps to Some of the cell.
C4_NullPointer ==
    Resolved =>
        \A name \in DOMAIN DeclaredMembers :
            (IsPointerTyped(name) /\ CellPresent(name)) =>
                /\ name \in DOMAIN result.val
                /\ memory[MemberAddress(name)] = IntegerZero
                   => result.val[name] = [some |-> FALSE]
                /\ memory[MemberAddress(name)] # IntegerZero
                   => result.val[name] =
                          [some |-> TRUE, val |-> memory[MemberAddress(name)]]

\* A map with a null pointer-typed member and a pointer-typed member that
\* holds an address.
C4_Witness ==
    /\ Resolved
    /\ \E name \in DOMAIN result.val :
           IsPointerTyped(name) /\ result.val[name] = [some |-> FALSE]
    /\ \E name \in DOMAIN result.val :
           /\ IsPointerTyped(name)
           /\ result.val[name].some
           /\ result.val[name].val.tag = "RelocatableValue"

\* C5: in the map serialize_pointers returns, a member that is not
\* pointer-typed and whose cell is the integer zero maps to Some(Int(0)),
\* and None is the value of pointer-typed members with a zero cell only.
C5_ZeroNotNull ==
    Resolved =>
        /\ \A name \in DOMAIN DeclaredMembers :
               (/\ ~IsPointerTyped(name)
                /\ CellPresent(name)
                /\ memory[MemberAddress(name)] = IntegerZero)
               => /\ name \in DOMAIN result.val
                  /\ result.val[name] = [some |-> TRUE, val |-> IntegerZero]
        /\ \A name \in DOMAIN result.val :
               result.val[name] = [some |-> FALSE]
               => /\ name \in DOMAIN DeclaredMembers
                  /\ IsPointerTyped(name)
                  /\ CellPresent(name)
                  /\ memory[MemberAddress(name)] = IntegerZero

\* A map with a zero member that is not pointer-typed next to a null
\* pointer-typed member.
C5_Witness ==
    /\ Resolved
    /\ \E name \in DOMAIN result.val :
           /\ ~IsPointerTyped(name)
           /\ result.val[name] = [some |-> TRUE, val |-> IntegerZero]
    /\ \E name \in DOMAIN result.val : result.val[name] = [some |-> FALSE]

\* C6: the keys of the map serialize_pointers returns are exactly the
\* declared members whose cell at base + offset was written.
C6_KeysArePresentCells ==
    Resolved =>
        DOMAIN result.val = {name \in DOMAIN DeclaredMembers : CellPresent(name)}

\* A map with one of two declared members: the other's cell was never
\* written, while memory holds cells.
C6_Witness ==
    /\ Resolved
    /\ Cardinality(DOMAIN DeclaredMembers) = 2
    /\ Cardinality(DOMAIN result.val) = 1
    /\ Cardinality(DOMAIN memory) = 2

\* None of the declared members' cells was written.
NoCellWritten == \A name \in DOMAIN DeclaredMembers : ~CellPresent(name)

\* base + offset is representable for every declared member.
AddressesRepresentable ==
    \A name \in DOMAIN DeclaredMembers : MemberOffset(name) <= USIZE_MAX

EmptyMap == [ok |-> TRUE, val |-> << >>]

\* C7 as claimed: serialize_pointers on a uniquely resolvable struct none of
\* whose cells was written returns an empty map, for every base address and
\* every member layout.
C7_EmptyAlways ==
    (call.op = "serialize_pointers" /\ ResolvesUniquely /\ NoCellWritten)
    => result = EmptyMap

\* C7 as amended: serialize_pointers on a uniquely resolvable struct none of
\* whose cells was written returns an empty map, for every base address and
\* every member layout such that base + offset is representable for every
\* declared member, and for a declaration without member layout.
C7_EmptyWhenRepresentable ==
    (/\ call.op = "serialize_pointers"
     /\ ResolvesUniquely
     /\ NoCellWritten
     /\ AddressesRepresentable)
    => result = EmptyMap

\* An empty map for a struct with two members, one ending at usize::MAX,
\* on a memory that holds cells elsewhere.
C7_Witness ==
    /\ call.op = "serialize_pointers"
    /\ ResolvesUniquely
    /\ Cardinality(DOMAIN DeclaredMembers) = 2
    /\ \E name \in DOMAIN DeclaredMembers : MemberOffset(name) = USIZE_MAX
    /\ memory # << >>
    /\ result = EmptyMap

\* C10: serialize_pointers on a name that matches declarations of other
\* kinds only fails with IdentifierNotFound carrying the name and
\* Some("struct"), whatever the base address and the memory.
C10_NotAStruct ==
    (/\ call.op = "serialize_pointers"
     /\ MatchingKeys(call.struct_name, [some |-> TRUE, val |-> "struct"]) = {}
     /\ \E kind \in Kinds : MatchingKeys(call.struct_name, kind) # {})
    => result = [ok |-> FALSE,
                 err |-> [kind |-> "IdentifierNotFound",
                          struct_name |-> call.struct_name,
                          expected_type |-> [some |-> TRUE, val |-> "struct"]]]

\* serialize_pointers on the function main, at a base that is not the start
\* of the segment and with cells written.
C10_Witness ==
    /\ call.op = "serialize_pointers"
    /\ call.struct_name = main
    /\ call.ptr.offset > 0
    /\ memory # << >>
    /\ ~result.ok

(***************************************************************************)
(* serialize_uint256, as the specification words it.                       *)
(***************************************************************************)
\* 2^128, scaled: the number of values of one limb.
Limb == Pow(ByteBase, U128_BYTES_SIZE)

IsDecode == call.op = "serialize_uint256"

\* Uint256 resolves uniquely to a struct that declares low and high.
DeclaresLowHigh ==
    ResolvesUniquely /\ {"low", "high"} \subseteq DOMAIN DeclaredMembers

\* The member's cell was written and holds an address.
HoldsAddress(name) ==
    CellPresent(name) /\ memory[MemberAddress(name)].tag = "RelocatableValue"

\* The member's cell was written and holds an integer that
\* serialize_pointers does not report as a null pointer.
HoldsUsableInteger(name) ==
    /\ CellPresent(name)
    /\ memory[MemberAddress(name)].tag = "Int"
    /\ ~(IsPointerTyped(name) /\ memory[MemberAddress(name)] = IntegerZero)

MissingFieldError(field) ==
    [ok |-> FALSE, err |-> [kind |-> "MissingField", field |-> field]]

\* C8: when Uint256 resolves uniquely to a struct whose members low and high
\* are not pointer-typed, and the low cell holds x mod 2^128 and the high
\* cell x div 2^128 for a 256-bit x, serialize_uint256 returns x.
C8_RoundTrip ==
    (/\ IsDecode
     /\ DeclaresLowHigh
     /\ ~IsPointerTyped("low")
     /\ ~IsPointerTyped("high")
     /\ CellPresent("low")
     /\ CellPresent("high"))
    => LET low == memory[MemberAddress("low")]
           high == memory[MemberAddress("high")]
           x == high.felt * Limb + low.felt
       IN  (/\ low.tag = "Int"
            /\ high.tag = "Int"
            /\ x < Limb * Limb
            /\ low.felt = x % Limb
            /\ high.felt = x \div Limb)
           => result = [ok |-> TRUE, val |-> x]

\* The decode of a value whose high limb is the largest and whose low limb
\* is one, from cells at different addresses.
C8_Witness ==
    /\ IsDecode
    /\ DeclaresLowHigh
    /\ ~IsPointerTyped("low")
    /\ ~IsPointerTyped("high")
    /\ HoldsUsableInteger("low")
    /\ HoldsUsableInteger("high")
    /\ memory[MemberAddress("low")].felt = 1
    /\ memory[MemberAddress("high")].felt = Limb - 1
    /\ result = [ok |-> TRUE, val |-> (Limb - 1) * Limb + 1]

\* C9 as claimed: serialize_uint256 fails with MissingField low when the low
\* cell is an address and with MissingField high when the high cell is an
\* address, each whatever the other cell holds.
C9_Independent ==
    (/\ IsDecode
     /\ DeclaresLowHigh
     /\ AddressesRepresentable
     /\ DeclaredMembers["low"].offset # DeclaredMembers["high"].offset)
    => /\ HoldsAddress("low") => result = MissingFieldError("low")
       /\ HoldsAddress("high") => result = MissingFieldError("high")

\* C9 as amended: serialize_uint256 fails with MissingField low when the low
\* cell is an address, whatever the high cell holds, and with MissingField
\* high when the high cell is an address and the low cell holds a usable
\* integer.
C9_LowFirst ==
    (IsDecode /\ DeclaresLowHigh /\ AddressesRepresentable)
    => /\ HoldsAddress("low") => result = MissingFieldError("low")
       /\ (HoldsAddress("high") /\ HoldsUsableInteger("low"))
          => result = MissingFieldError("high")

\* The decode fails on high, an address, after low, an integer.
C9_Witness ==
    /\ IsDecode
    /\ DeclaresLowHigh
    /\ HoldsAddress("high")
    /\ HoldsUsableInteger("low")
    /\ result = MissingFieldError("high")

(***************************************************************************)
(* Frame of the operations.                                                *)
(***************************************************************************)
\* C11: a step that is a call of get_identifier, serialize_pointers or
\* serialize_uint256, whether it returns a value or an error and whatever
\* calls came before, leaves the identifier table and every memory cell as
\* they were.
C11_ReadOnly ==
    [][call'.op \in {"get_identifier", "serialize_pointers", "serialize_uint256"}
       => (identifiers' = identifiers /\ memory' = memory)]_vars

\* A failing serialize_pointers call on a memory that holds cells, at a
\* base whose cell was never written.
C11_Witness ==
    /\ call.op = "serialize_pointers"
    /\ ~result.ok
    /\ memory # << >>
    /\ call.ptr \notin DOMAIN memory

(***************************************************************************)
(* Iteration order of the declared members.                                *)
(***************************************************************************)
\* What the finished call returns when the members are iterated in order.
ResultUnder(order) ==
    IF call.op = "serialize_uint256"
    THEN serialize_uint256(identifiers, memory, call.ptr, order)
    ELSE serialize_pointers(identifiers, memory, call.struct_name, call.ptr, order)

\* C12: a call of serialize_pointers or serialize_uint256 returns the same
\* result on the same identifier table, memory and arguments, in whatever
\* order the declared members are iterated and whatever calls were made
\* before.
C12_OrderIndependent ==
    call.op \in {"serialize_pointers", "serialize_uint256"}
        => \A order \in MemberOrders(identifiers, CallName) :
               ResultUnder(order) = result

(***************************************************************************)
(* ScopedName.                                                             *)
(***************************************************************************)
\* The segments joined with sep between them.
RECURSIVE Join(_, _)
Join(path, sep) ==
    IF Len(path) = 0 THEN << >>
    ELSE IF Len(path) = 1 THEN path[1]
    ELSE path[1] \o <<sep>> \o Join(Tail(path), sep)

\* s is not empty, neither starts nor ends with a dot and has no two dots
\* in a row.
NoEmptySegment(s) ==
    /\ Len(s) > 0
    /\ s[1] # "."
    /\ s[Len(s)] # "."
    /\ \A i \in 1..(Len(s) - 1) : ~(s[i] = "." /\ s[i + 1] = ".")

\* C13: the path from_string gives for a string with no empty
\* dot-separated segment joins with "." back to that string, and the path
\* it gives for the empty string is empty, not one empty segment.
C13_RoundTrip ==
    call.op = "from_string"
        => /\ NoEmptySegment(call.scope)
               => Join(result.path, ".") = call.scope
           /\ call.scope = << >> => result.path = << >>

\* from_string has split a string of two segments or more.
C13_Witness ==
    /\ call.op = "from_string"
    /\ NoEmptySegment(call.scope)
    /\ Len(result.path) >= 2
    /\ Join(result.path, ".") = call.scope

(***************************************************************************)
(* Missing fields of serialize_uint256.                                    *)
(***************************************************************************)
\* The struct declares the member.
Declares(name) == name \in DOMAIN DeclaredMembers

\* The member is missing from the map serialize_pointers returns (not
\* declared, or its cell never written), or is None in it (pointer-typed
\* and holding integer zero).
AbsentOrNone(name) ==
    \/ ~Declares(name)
    \/ ~CellPresent(name)
    \/ (IsPointerTyped(name) /\ memory[MemberAddress(name)] = IntegerZero)

\* The member is in the map as an integer.
Usable(name) == Declares(name) /\ HoldsUsableInteger(name)

\* C14: when Uint256 resolves uniquely and serialize_pointers returns a map
\* in which low or high is missing or None, serialize_uint256 returns a
\* MissingField error and no value: naming low when low is the missing
\* one, naming high when high is the missing one and low is an integer.
C14_MissingField ==
    (IsDecode /\ ResolvesUniquely /\ AddressesRepresentable)
    => /\ (AbsentOrNone("low") \/ AbsentOrNone("high"))
              => result \in {MissingFieldError("low"), MissingFieldError("high")}
       /\ AbsentOrNone("low") => result = MissingFieldError("low")
       /\ (AbsentOrNone("high") /\ Usable("low"))
              => result = MissingFieldError("high")

\* The decode fails on a high that the struct declares pointer-typed and
\* whose cell holds zero, after a low that is an integer.
C14_Witness ==
    /\ IsDecode
    /\ DeclaresLowHigh
    /\ AddressesRepresentable
    /\ Usable("low")
    /\ CellPresent("high")
    /\ AbsentOrNone("high")
    /\ result = MissingFieldError("high")

(***************************************************************************)
(* Limbs of 2^128 or more.                                                 *)
(***************************************************************************)
\* C15: when Uint256 resolves uniquely and serialize_pointers returns low
\* and high as integers, of any size up to the field modulus,
\* serialize_uint256 succeeds and returns
\* (high mod 2^128) * 2^128 + (low mod 2^128): an integer of 2^128 or more
\* is reduced, not rejected.
C15_LimbsReduced ==
    (/\ IsDecode
     /\ DeclaresLowHigh
     /\ AddressesRepresentable
     /\ HoldsUsableInteger("low")
     /\ HoldsUsableInteger("high"))
    => LET low == memory[MemberAddress("low")].felt
           high == memory[MemberAddress("high")].felt
       IN  result = [ok |-> TRUE, val |-> (high % Limb) * Limb + (low % Limb)]

\* The decode of a low of 2^128 + 1 and a high of 2^128 or more, from cells
\* at different addresses.
C15_Witness ==
    /\ IsDecode
    /\ DeclaresLowHigh
    /\ HoldsUsableInteger("low")
    /\ HoldsUsableInteger("high")
    /\ MemberAddress("low") # MemberAddress("high")
    /\ memory[MemberAddress("low")].felt = Limb + 1
    /\ memory[MemberAddress("high")].felt >= Limb
    /\ result = [ok |-> TRUE,
                 val |-> (memory[MemberAddress("high")].felt - Limb) * Limb + 1]

(***************************************************************************)
(* Address arithmetic of serialize_pointers.                               *)
(***************************************************************************)
\* C16: when the struct resolves uniquely and base + offset is not
\* representable for one of its declared members, serialize_pointers
\* returns the address-arithmetic error of such a member and no map,
\* whatever cells of the other members were written.
C16_AddressError ==
    (/\ call.op = "serialize_pointers"
     /\ ResolvesUniquely
     /\ ~AddressesRepresentable)
    => /\ ~result.ok
       /\ result.err.kind = "CairoVmMath"
       /\ result.err.ptr = call.ptr
       /\ \E name \in DOMAIN DeclaredMembers :
              /\ MemberOffset(name) > USIZE_MAX
              /\ result.err.offset = DeclaredMembers[name].offset

\* The address-arithmetic error of a struct one member of which overflows
\* while the cell of the other was written.
C16_Witness ==
    /\ call.op = "serialize_pointers"
    /\ ResolvesUniquely
    /\ ~result.ok
    /\ result.err.kind = "CairoVmMath"
    /\ \E name \in DOMAIN DeclaredMembers :
           MemberOffset(name) <= USIZE_MAX /\ CellPresent(name)
    /\ \E name \in DOMAIN DeclaredMembers : MemberOffset(name) > USIZE_MAX

(***************************************************************************)
(* Order of the checks of serialize_uint256.                               *)
(***************************************************************************)
\* C17: when Uint256 resolves uniquely at representable addresses and
\* neither low nor high is in the map as an integer (missing, None or an
\* address), serialize_uint256 returns MissingField low; and whenever it
\* returns MissingField high, low is a cell that holds an integer.
C17_LowBeforeHigh ==
    IsDecode
    => /\ (/\ ResolvesUniquely
           /\ AddressesRepresentable
           /\ ~Usable("low")
           /\ ~Usable("high"))
              => result = MissingFieldError("low")
       /\ result = MissingFieldError("high")
              => (ResolvesUniquely /\ Usable("low") /\ ~Usable("high"))

\* The decode fails on low while the low cell holds an address and high is
\* declared but its cell was never written.
C17_Witness ==
    /\ IsDecode
    /\ DeclaresLowHigh
    /\ AddressesRepresentable
    /\ HoldsAddress("low")
    /\ ~CellPresent("high")
    /\ result = MissingFieldError("low")

====
